---- MODULE Spec2Model ----
(***************************************************************************)
(* The workflow run form (src/unnamed/part_001, a Vue single-file          *)
(* component) as a state machine.  The state is the component's data()     *)
(* and its model prop, the promises of invokeWorkflow that have not yet    *)
(* settled, and what the handler that ran last passed to invokeWorkflow    *)
(* and to $emit.  There is one action per method of the component and one  *)
(* per callback of the promise (.then, .catch).                            *)
(* The data providers of storeProviders.js are modelled beside it: the     *)
(* state of one simple provider and of the two upload-store providers,     *)
(* with one action per watcher, method and settlement of a promise.        *)
(***************************************************************************)
EXTENDS Integers, Sequences, FiniteSets

(***************************************************************************)
(* Bounds of the exploration.                                              *)
(***************************************************************************)
\* number of steps of the workflow (model.steps, step.index = 0..NumSteps-1)
NumSteps == 2
\* at most this many calls of invokeWorkflow are unsettled at a time
MaxInFlight == 2
\* at most this many HTTP requests (store fetches) of a provider are
\* unsettled at a time
MaxRequests == 2

(***************************************************************************)
(* JavaScript values.  Every value carries its type, so that truthiness,   *)
(* property access and Object.entries can be computed as the language      *)
(* computes them.  An object is the sequence of its own properties,        *)
(* <<key, value>>, in creation order.                                      *)
(***************************************************************************)
Undefined == [t |-> "undefined"]
Null == [t |-> "null"]
Bool(b) == [t |-> "boolean", b |-> b]
Num(n) == [t |-> "number", n |-> n]
Str(s) == [t |-> "string", s |-> s]
Arr(a) == [t |-> "array", a |-> a]
Obj(p) == [t |-> "object", p |-> p]

\* ToBoolean, as used by if (...), !x, x ? a : b and &&
Truthy(v) ==
    CASE v.t = "undefined" -> FALSE
      [] v.t = "null" -> FALSE
      [] v.t = "boolean" -> v.b
      [] v.t = "number" -> v.n # 0
      [] v.t = "string" -> v.s # ""
      [] OTHER -> TRUE

\* a && b
And(a, b) == IF Truthy(a) THEN b ELSE a

\* The canonical numeric strings of the array indices: ToString(i) for a
\* step index i, and the keys Object.entries visits first, in this order.
IndexKeys == <<"0", "1", "2", "3", "4", "5", "6", "7", "8", "9">>
ToString(i) == IndexKeys[i + 1]
IsIndexKey(k) == \E i \in 1..Len(IndexKeys) : IndexKeys[i] = k
ToNumber(k) == (CHOOSE i \in 1..Len(IndexKeys) : IndexKeys[i] = k) - 1

\* own properties p of an object: lookup, and assignment p[k] = v
HasKey(p, k) == \E i \in 1..Len(p) : p[i][1] = k
GetProp(p, k) ==
    IF HasKey(p, k) THEN p[CHOOSE i \in 1..Len(p) : p[i][1] = k][2] ELSE Undefined
SetProp(p, k, v) ==
    IF HasKey(p, k)
    THEN [i \in 1..Len(p) |-> IF p[i][1] = k THEN <<k, v>> ELSE p[i]]
    ELSE Append(p, <<k, v>>)

\* v.k for the values the handlers read a property of (never null/undefined)
Get(v, k) == IF v.t = "object" THEN GetProp(v.p, k) ELSE Undefined

\* The characters of the strings that reach Object.entries.
Chars(s) ==
    CASE s = "" -> <<>>
      [] s = "no" -> <<"n", "o">>

\* Object.entries(v) throws a TypeError for null and undefined
EntriesThrows(v) == v.t \in {"undefined", "null"}

\* faulty variant: the properties in creation order, whatever their keys
PropEntriesInsertionOrder(p) == p

\* Object.entries of an object: the integer-like keys in ascending numeric
\* order, then the other keys in creation order
PropEntries(p) ==
    LET idx == SelectSeq(IndexKeys, LAMBDA k : HasKey(p, k))
    IN  [i \in 1..Len(idx) |-> <<idx[i], GetProp(p, idx[i])>>]
          \o SelectSeq(p, LAMBDA e : ~IsIndexKey(e[1]))

\* Object.entries(v) for a value that does not make it throw
ObjectEntries(v) ==
    CASE v.t = "object" -> PropEntries(v.p)
      [] v.t = "array" -> [i \in 1..Len(v.a) |-> <<ToString(i - 1), v.a[i]>>]
      [] v.t = "string" ->
            [i \in 1..Len(Chars(v.s)) |-> <<ToString(i - 1), Str(Chars(v.s)[i])>>]
      [] OTHER -> <<>>

\* one entry [key, value] of Object.entries, as the array it is
Entry(e) == Arr(<<Str(e[1]), e[2]>>)

\* a[i] of a sequence of entries (0-based): undefined past the end
EntryAt(es, i) == IF i + 1 <= Len(es) THEN Entry(es[i + 1]) ELSE Undefined

\* stepValidation.slice(): a copy of the array, element for element
Slice(v) == Arr([i \in 1..Len(v.a) |-> v.a[i]])

(***************************************************************************)
(* State.                                                                  *)
(***************************************************************************)
VARIABLES
    model,            \* the model prop
    showExecuting,    \* data(): the busy flag of the run button
    stepData,         \* data(): own properties stepId -> input map
    stepValidations,  \* data(): own properties stepId -> validation
    stepScrollTo,     \* data(): {} or {stepId, stepError}
    wpData,           \* data(): workflow (replacement) parameters
    historyData,      \* data(): history options
    resourceData,     \* set by onResourceInputs only (not part of data())
    useCachedJobs,    \* data(): job re-use flag
    inflight,         \* number of invokeWorkflow promises not yet settled
    handler,          \* the handler that ran last
    invoked,          \* what that handler passed to invokeWorkflow
    emitted,          \* what that handler passed to $emit
    response,         \* the settlement that handler was called with
    id,               \* SimpleProviderMixin: the id prop
    loading,          \* SimpleProviderMixin data(): loading
    item,             \* SimpleProviderMixin data(): item
    requests,         \* the axios requests of the provider not yet settled
    anyRejected,      \* some axios request of the provider was rejected
    store,            \* what getUploadGenomes / getUploadDatatypes return
    storeProvider,    \* GenomeProvider, DatatypesProvider: loading, item, the
                      \* loads awaiting their fetch, mounted or not
    dispatched        \* the store actions that handler dispatched

\* the state of the providers of storeProviders.js
providerVars == <<id, loading, item, requests, anyRejected, store,
                  storeProvider, dispatched>>

vars == <<model, showExecuting, stepData, stepValidations, stepScrollTo, wpData,
          historyData, resourceData, useCachedJobs, inflight, handler, invoked,
          emitted, response, providerVars>>

\* the data of the form, which no provider touches
formData == <<model, showExecuting, stepData, stepValidations, stepScrollTo,
              wpData, historyData, resourceData, useCachedJobs, inflight>>

NoResponse == [settled |-> "none", value |-> Undefined]

\* the handlers that record what a form reports: they neither call
\* invokeWorkflow nor $emit, and are no callback of a promise
quiet == /\ handler' = "onChange"
         /\ invoked' = <<>>
         /\ emitted' = <<>>
         /\ response' = NoResponse
         /\ UNCHANGED inflight

Steps == 0..(NumSteps - 1)

\* step.step_type as the template reads it: the tool steps are rendered by
\* WorkflowRunToolStep, the others by WorkflowRunDefaultStep
StepModel(i) == [index |-> i, step_type |-> IF i % 2 = 0 THEN "tool" ELSE "data_input"]

\* The model prop: the run model of one workflow; connected is the set of
\* <<stepId, inputName>> for which model.isConnected answers true.
Model(conn) ==
    [workflowId |-> "w1",
     name |-> "wf",
     historyId |-> Str("h1"),
     steps |-> [i \in 1..NumSteps |-> StepModel(i - 1)],
     connected |-> conn]

isConnected(stepId, inputName) == <<stepId, inputName>> \in model.connected

\* the providers that read the upload store
StoreProviders == {"GenomeProvider", "DatatypesProvider"}

\* an axios call: axios.get(url) or axios.put(url, body)
Request(method, url, body) == [method |-> method, url |-> url, body |-> body]

\* The state after construction.  The id watcher of the simple provider is
\* immediate: created with id "a" it has called load() once.
Init ==
    /\ model = Model({<<"0", "a">>})
    /\ showExecuting = FALSE
    /\ stepData = <<>>
    /\ stepValidations = <<>>
    /\ stepScrollTo = [stepId |-> Undefined, stepError |-> Undefined]
    /\ wpData = Obj(<<>>)
    /\ historyData = Obj(<<>>)
    /\ resourceData = Undefined
    /\ useCachedJobs = FALSE
    /\ inflight = 0
    /\ handler = "created"
    /\ invoked = <<>>
    /\ emitted = <<>>
    /\ response = NoResponse
    /\ id = "a"
    /\ loading = TRUE
    /\ item = Null
    /\ requests = <<Request("get", "a", Undefined)>>
    /\ anyRejected = FALSE
    /\ store = [k \in StoreProviders |-> Null]
    /\ storeProvider = [k \in StoreProviders |->
                           [loading |-> FALSE, item |-> Null, mounted |-> FALSE,
                            awaiting |-> 0]]
    /\ dispatched = <<>>

(***************************************************************************)
(* The handlers of the form's events.                                      *)
(***************************************************************************)
getValidationScrollTo(stepId) ==
    IF stepScrollTo.stepId.t = "string" /\ IsIndexKey(stepScrollTo.stepId.s)
         /\ ToNumber(stepScrollTo.stepId.s) = stepId
    THEN stepScrollTo.stepError
    ELSE Arr(<<>>)

OnDefaultStepInputs(stepId, data) ==
    /\ model.steps[stepId + 1].step_type # "tool"
    /\ stepData' = SetProp(stepData, ToString(stepId), data)
    /\ quiet
    /\ UNCHANGED providerVars
    /\ UNCHANGED <<model, showExecuting, stepValidations, stepScrollTo, wpData,
                   historyData, resourceData, useCachedJobs>>

\* faulty variant: the reported inputs are merged into the recorded map
OnToolStepInputsMerged(stepId, data) ==
    /\ model.steps[stepId + 1].step_type = "tool"
    /\ stepData' =
          IF HasKey(stepData, ToString(stepId))
          THEN SetProp(stepData, ToString(stepId),
                       Obj(GetProp(stepData, ToString(stepId)).p \o
                           SelectSeq(data.p, LAMBDA e :
                               ~HasKey(GetProp(stepData, ToString(stepId)).p, e[1]))))
          ELSE SetProp(stepData, ToString(stepId), data)
    /\ quiet
    /\ UNCHANGED providerVars
    /\ UNCHANGED <<model, showExecuting, stepValidations, stepScrollTo, wpData,
                   historyData, resourceData, useCachedJobs>>

OnToolStepInputs(stepId, data) ==
    /\ model.steps[stepId + 1].step_type = "tool"
    /\ stepData' = SetProp(stepData, ToString(stepId), data)
    /\ quiet
    /\ UNCHANGED providerVars
    /\ UNCHANGED <<model, showExecuting, stepValidations, stepScrollTo, wpData,
                   historyData, resourceData, useCachedJobs>>

OnHistoryInputs(data) ==
    /\ historyData' = data
    /\ quiet
    /\ UNCHANGED providerVars
    /\ UNCHANGED <<model, showExecuting, stepData, stepValidations, stepScrollTo,
                   wpData, resourceData, useCachedJobs>>

OnResourceInputs(data) ==
    /\ resourceData' = data
    /\ quiet
    /\ UNCHANGED providerVars
    /\ UNCHANGED <<model, showExecuting, stepData, stepValidations, stepScrollTo,
                   wpData, historyData, useCachedJobs>>

OnWpInputs(data) ==
    /\ wpData' = data
    /\ quiet
    /\ UNCHANGED providerVars
    /\ UNCHANGED <<model, showExecuting, stepData, stepValidations, stepScrollTo,
                   historyData, resourceData, useCachedJobs>>

\* v-model="useCachedJobs" of the re-use FormElement
SetUseCachedJobs(value) ==
    /\ useCachedJobs' = value
    /\ quiet
    /\ UNCHANGED providerVars
    /\ UNCHANGED <<model, showExecuting, stepData, stepValidations, stepScrollTo,
                   wpData, historyData, resourceData>>

OnValidation(stepId, validation) ==
    /\ stepValidations' = SetProp(stepValidations, ToString(stepId), validation)
    /\ quiet
    /\ UNCHANGED providerVars
    /\ UNCHANGED <<model, showExecuting, stepData, stepScrollTo, wpData,
                   historyData, resourceData, useCachedJobs>>

(***************************************************************************)
(* onExecute and the callbacks of the promise invokeWorkflow returns.      *)
(***************************************************************************)
\* the entries of stepValidations the loop stops at: if (stepValidation)
FailingEntries ==
    SelectSeq(ObjectEntries(Obj(stepValidations)), LAMBDA e : Truthy(e[2]))

\* the validation loop's stepScrollTo for the entry it stops at
ValidationScrollTo(e) == [stepId |-> Str(e[1]), stepError |-> Slice(e[2])]

\* faulty variant: the filter asks whether the input is connected at any step
StepDataFilteredAnyStep(stepId, data) ==
    Obj(SelectSeq(ObjectEntries(data),
                  LAMBDA e : ~\E c \in model.connected : c[2] = e[1]))

\* stepDataFiltered of one step: the inputs model.isConnected rejects are
\* left out, the others are copied
StepDataFiltered(stepId, data) ==
    Obj(SelectSeq(ObjectEntries(data), LAMBDA e : ~isConnected(stepId, e[1])))

\* const parameters: one filtered map for every own property of stepData
Parameters ==
    LET es == ObjectEntries(Obj(stepData))
    IN  [i \in 1..Len(es) |-> <<es[i][1], StepDataFiltered(es[i][1], es[i][2])>>]

NewHistoryName ==
    IF Truthy(Get(historyData, "new_history|name"))
    THEN Get(historyData, "new_history|name")
    ELSE Null

\* faulty variant: history_id is sent whatever the history options say
HistoryIdAlways == model.historyId

HistoryId ==
    IF ~Truthy(Get(historyData, "new_history|name")) THEN model.historyId ELSE Null

\* faulty variant: batch is asked for only when step inputs were recorded
JobDefBatchIfInputs ==
    [new_history_name |-> NewHistoryName,
     history_id |-> HistoryId,
     resource_params |-> resourceData,
     replacement_params |-> wpData,
     use_cached_job |-> Bool(useCachedJobs),
     parameters |-> Obj(Parameters),
     parameters_normalized |-> Bool(TRUE),
     batch |-> Bool(stepData # <<>>),
     require_exact_tool_versions |-> Bool(FALSE)]

JobDef ==
    [new_history_name |-> NewHistoryName,
     history_id |-> HistoryId,
     resource_params |-> resourceData,
     replacement_params |-> wpData,
     use_cached_job |-> Bool(useCachedJobs),
     parameters |-> Obj(Parameters),
     parameters_normalized |-> Bool(TRUE),
     batch |-> Bool(TRUE),
     require_exact_tool_versions |-> Bool(FALSE)]

\* faulty variant: the validation loop without its return: the scroll target is
\* set and the request is submitted all the same
ExecuteAbortedNoReturn ==
    /\ stepScrollTo' = ValidationScrollTo(FailingEntries[1])
    /\ showExecuting' = TRUE
    /\ invoked' = <<[workflowId |-> model.workflowId, jobDef |-> Undefined]>>
    /\ inflight' = inflight + 1

\* faulty variant: the busy flag is raised before the validation loop
ExecuteAbortedBusy ==
    /\ stepScrollTo' = ValidationScrollTo(FailingEntries[1])
    /\ showExecuting' = TRUE
    /\ invoked' = <<>>
    /\ UNCHANGED inflight

\* onExecute up to its return inside the validation loop
ExecuteAborted ==
    /\ stepScrollTo' = ValidationScrollTo(FailingEntries[1])
    /\ invoked' = <<>>
    /\ UNCHANGED <<showExecuting, inflight>>

\* faulty variant: a trigger that arrives while the form is busy is dropped
ExecuteSubmittedUnlessBusy ==
    IF showExecuting
    THEN /\ invoked' = <<>>
         /\ UNCHANGED <<showExecuting, inflight, stepScrollTo>>
    ELSE /\ showExecuting' = TRUE
         /\ invoked' = <<[workflowId |-> model.workflowId, jobDef |-> JobDef]>>
         /\ inflight' = inflight + 1
         /\ UNCHANGED stepScrollTo

\* onExecute past the validation loop: the request is built and submitted
ExecuteSubmitted ==
    /\ showExecuting' = TRUE
    /\ invoked' = <<[workflowId |-> model.workflowId, jobDef |-> JobDef]>>
    /\ inflight' = inflight + 1
    /\ UNCHANGED stepScrollTo

OnExecute ==
    /\ FailingEntries = <<>> => inflight < MaxInFlight
    /\ handler' = "onExecute"
    /\ IF FailingEntries # <<>> THEN ExecuteAborted ELSE ExecuteSubmitted
    /\ emitted' = <<>>
    /\ response' = NoResponse
    /\ UNCHANGED providerVars
    /\ UNCHANGED <<model, stepData, stepValidations, wpData, historyData,
                   resourceData, useCachedJobs>>

\* faulty variant: submissionSuccess is emitted only once nothing is in flight
SubmissionSuccessfulWhenIdle(invocations) ==
    /\ inflight > 0
    /\ inflight' = inflight - 1
    /\ handler' = "then"
    /\ response' = [settled |-> "resolved", value |-> invocations]
    /\ showExecuting' = FALSE
    /\ emitted' = IF inflight = 1
                  THEN <<[name |-> "submissionSuccess", arg |-> invocations]>>
                  ELSE <<>>
    /\ invoked' = <<>>
    /\ UNCHANGED providerVars
    /\ UNCHANGED <<model, stepData, stepValidations, stepScrollTo, wpData,
                   historyData, resourceData, useCachedJobs>>

\* .then((invocations) => ...)
SubmissionSuccessful(invocations) ==
    /\ inflight > 0
    /\ inflight' = inflight - 1
    /\ handler' = "then"
    /\ response' = [settled |-> "resolved", value |-> invocations]
    /\ showExecuting' = FALSE
    /\ emitted' = <<[name |-> "submissionSuccess", arg |-> invocations]>>
    /\ invoked' = <<>>
    /\ UNCHANGED providerVars
    /\ UNCHANGED <<model, stepData, stepValidations, stepScrollTo, wpData,
                   historyData, resourceData, useCachedJobs>>

\* e && e.response && e.response.data && e.response.data.err_data
ErrorData(e) ==
    LET r == And(e, Get(e, "response"))
        d == And(r, Get(r, "data"))
    IN  And(d, Get(d, "err_data"))

\* the try block throws: errorEntries[0] is undefined, or Object.entries is
\* given null or undefined
FormattingThrows(errorData) ==
    LET errorEntries == ObjectEntries(errorData)
    IN  errorEntries = <<>> \/ EntriesThrows(errorEntries[1][2])

\* the try block's stepScrollTo when nothing is thrown
ErrorScrollTo(errorData) ==
    LET errorEntries == ObjectEntries(errorData)
    IN  [stepId |-> Str(errorEntries[1][1]),
         stepError |-> EntryAt(ObjectEntries(errorEntries[1][2]), 0)]

\* faulty variant: the busy flag is cleared at the end of the try block, so
\* it stays raised when the formatting throws
SubmissionFailedBusyOnThrow(e) ==
    /\ inflight > 0
    /\ inflight' = inflight - 1
    /\ handler' = "catch"
    /\ response' = [settled |-> "rejected", value |-> e]
    /\ IF Truthy(ErrorData(e))
       THEN IF FormattingThrows(ErrorData(e))
            THEN /\ emitted' = <<[name |-> "submissionError", arg |-> e]>>
                 /\ UNCHANGED <<stepScrollTo, showExecuting>>
            ELSE /\ stepScrollTo' = ErrorScrollTo(ErrorData(e))
                 /\ showExecuting' = FALSE
                 /\ emitted' = <<>>
       ELSE /\ emitted' = <<[name |-> "submissionError", arg |-> e]>>
            /\ showExecuting' = FALSE
            /\ UNCHANGED stepScrollTo
    /\ invoked' = <<>>
    /\ UNCHANGED providerVars
    /\ UNCHANGED <<model, stepData, stepValidations, wpData, historyData,
                   resourceData, useCachedJobs>>

\* faulty variant: the else branch is missing: an error without err_data is dropped
SubmissionFailedNoElse(e) ==
    /\ inflight > 0
    /\ inflight' = inflight - 1
    /\ handler' = "catch"
    /\ response' = [settled |-> "rejected", value |-> e]
    /\ showExecuting' = FALSE
    /\ IF Truthy(ErrorData(e))
       THEN IF FormattingThrows(ErrorData(e))
            THEN /\ emitted' = <<[name |-> "submissionError", arg |-> e]>>
                 /\ UNCHANGED stepScrollTo
            ELSE /\ stepScrollTo' = ErrorScrollTo(ErrorData(e))
                 /\ emitted' = <<>>
       ELSE /\ emitted' = <<>>
            /\ UNCHANGED stepScrollTo
    /\ invoked' = <<>>
    /\ UNCHANGED providerVars
    /\ UNCHANGED <<model, stepData, stepValidations, wpData, historyData,
                   resourceData, useCachedJobs>>

\* .catch((e) => ...)
SubmissionFailed(e) ==
    /\ inflight > 0
    /\ inflight' = inflight - 1
    /\ handler' = "catch"
    /\ response' = [settled |-> "rejected", value |-> e]
    /\ showExecuting' = FALSE
    /\ IF Truthy(ErrorData(e))
       THEN IF FormattingThrows(ErrorData(e))
            THEN /\ emitted' = <<[name |-> "submissionError", arg |-> e]>>
                 /\ UNCHANGED stepScrollTo
            ELSE /\ stepScrollTo' = ErrorScrollTo(ErrorData(e))
                 /\ emitted' = <<>>
       ELSE /\ emitted' = <<[name |-> "submissionError", arg |-> e]>>
            /\ UNCHANGED stepScrollTo
    /\ invoked' = <<>>
    /\ UNCHANGED providerVars
    /\ UNCHANGED <<model, stepData, stepValidations, wpData, historyData,
                   resourceData, useCachedJobs>>

(***************************************************************************)
(* The events the form is driven with.                                     *)
(***************************************************************************)
\* what a step form reports to onValidation
Validations == {Null, Arr(<<>>), Arr(<<Str("required")>>)}

\* input maps a step form reports to onChange
InputMaps ==
    {Obj(<<<<"a", Num(1)>>, <<"b", Num(2)>>>>),
     Obj(<<<<"c", Num(3)>>>>),
     Obj(<<<<"a", Num(2)>>>>)}

\* what the history options form reports: the new-history switch off, on
\* with an empty name, on with a name
HistoryOptions ==
    {Obj(<<<<"new_history|check", Str("false")>>>>),
     Obj(<<<<"new_history|check", Str("true")>>, <<"new_history|name", Str("")>>>>),
     Obj(<<<<"new_history|check", Str("true")>>, <<"new_history|name", Str("run 1")>>>>)}

ResourceOptions == {Obj(<<<<"memory", Str("high")>>>>)}

WpOptions == {Obj(<<>>), Obj(<<<<"wp_1", Str("x")>>>>)}

\* invocation lists the service resolves with
Invocations == {Arr(<<Str("inv1")>>), Arr(<<Str("inv1"), Str("inv2")>>)}

\* an error whose response data carries err_data
ServerError(errData) ==
    Obj(<<<<"response", Obj(<<<<"data", Obj(<<<<"err_data", errData>>>>)>>>>)>>>>)

FieldErrors(name, message) == Obj(<<<<name, Str(message)>>>>)

\* errors without err_data: nothing at all, no response, no data, no err_data
OpaqueErrors ==
    {Undefined,
     Obj(<<<<"message", Str("Network Error")>>>>),
     Obj(<<<<"response", Obj(<<<<"status", Num(500)>>>>)>>>>),
     Obj(<<<<"response", Obj(<<<<"data", Obj(<<<<"err_msg", Str("failed")>>>>)>>>>)>>>>)}

\* per-step error maps, in the order the server wrote them
StepErrorMaps ==
    {Obj(<<<<"2", FieldErrors("field_x", "bad value")>>>>),
     Obj(<<<<"1", FieldErrors("field_y", "missing")>>,
           <<"0", FieldErrors("field_x", "bad value")>>>>),
     Obj(<<<<"1", Obj(<<<<"field_y", Str("missing")>>, <<"field_x", Str("bad value")>>>>)>>>>)}

\* err_data of another shape: an empty map, a step with no field errors, a
\* step entry that is null, a string or a number, an empty string
MalformedErrorData ==
    {Obj(<<>>),
     Obj(<<<<"1", Obj(<<>>)>>>>),
     Obj(<<<<"1", Null>>>>),
     Obj(<<<<"1", Str("no")>>>>),
     Obj(<<<<"1", Num(7)>>>>),
     Str("")}

(***************************************************************************)
(* Three specifications of the same handlers.  Each draws one group of     *)
(* events from its full set and the others from a small one: Spec the      *)
(* validation reports and the submissions, SpecRequest the step inputs and *)
(* the workflow options, SpecFailure the errors of the service.            *)
(***************************************************************************)
OneInputMap == {Obj(<<<<"b", Num(2)>>>>)}
NoOptions == {Obj(<<>>)}
TwoErrors ==
    {Obj(<<<<"message", Str("Network Error")>>>>),
     ServerError(Obj(<<<<"1", FieldErrors("field_y", "missing")>>>>))}

Next ==
    \/ \E data \in OneInputMap : OnDefaultStepInputs(1, data)
    \/ \E data \in OneInputMap : OnToolStepInputs(0, data)
    \/ \E data \in NoOptions : OnHistoryInputs(data)
    \/ \E data \in NoOptions : OnResourceInputs(data)
    \/ \E data \in NoOptions : OnWpInputs(data)
    \/ \E value \in {FALSE} : SetUseCachedJobs(value)
    \/ \E stepId \in Steps, validation \in Validations : OnValidation(stepId, validation)
    \/ OnExecute
    \/ \E invocations \in Invocations : SubmissionSuccessful(invocations)
    \/ \E e \in TwoErrors : SubmissionFailed(e)

Spec == Init /\ [][Next]_vars

NextRequest ==
    \/ \E stepId \in Steps, data \in InputMaps : OnDefaultStepInputs(stepId, data)
    \/ \E stepId \in Steps, data \in InputMaps : OnToolStepInputs(stepId, data)
    \/ \E data \in HistoryOptions : OnHistoryInputs(data)
    \/ \E data \in ResourceOptions : OnResourceInputs(data)
    \/ \E data \in WpOptions : OnWpInputs(data)
    \/ \E value \in BOOLEAN : SetUseCachedJobs(value)
    \/ \E validation \in {Null, Arr(<<Str("required")>>)} : OnValidation(0, validation)
    \/ OnExecute
    \/ \E invocations \in {Arr(<<Str("inv1")>>)} : SubmissionSuccessful(invocations)
    \/ \E e \in {Obj(<<<<"message", Str("Network Error")>>>>)} : SubmissionFailed(e)

SpecRequest == Init /\ [][NextRequest]_vars

NextFailure ==
    \/ \E data \in OneInputMap : OnDefaultStepInputs(1, data)
    \/ \E data \in OneInputMap : OnToolStepInputs(0, data)
    \/ \E data \in NoOptions : OnHistoryInputs(data)
    \/ \E data \in NoOptions : OnResourceInputs(data)
    \/ \E data \in NoOptions : OnWpInputs(data)
    \/ \E value \in {FALSE} : SetUseCachedJobs(value)
    \/ \E validation \in {Null, Arr(<<Str("required")>>)} : OnValidation(0, validation)
    \/ OnExecute
    \/ \E invocations \in {Arr(<<Str("inv1")>>)} : SubmissionSuccessful(invocations)
    \/ \E e \in OpaqueErrors \cup {ServerError(d) : d \in StepErrorMaps \cup MalformedErrorData} :
          SubmissionFailed(e)

SpecFailure == Init /\ [][NextFailure]_vars

\* a promise of invokeWorkflow settles: one of its callbacks runs
Settled ==
    \/ \E invocations \in {Arr(<<Str("inv1")>>)} : SubmissionSuccessful(invocations)
    \/ \E e \in OpaqueErrors \cup {ServerError(d) : d \in StepErrorMaps \cup MalformedErrorData} :
          SubmissionFailed(e)

\* SpecFailure where every call of invokeWorkflow gets a response in the end
SpecFailureFair == SpecFailure /\ WF_vars(Settled)

(***************************************************************************)
(* The providers (src/client/src/components/providers/storeProviders.js).  *)
(* The simple provider is DatasetCollectionContentProvider, whose url is   *)
(* its id prop: load() and save() each send one axios request, and the     *)
(* requests settle in any order.  GenomeProvider and DatatypesProvider     *)
(* override load() to read the upload store.                               *)
(***************************************************************************)
\* computed url of DatasetCollectionContentProvider (the application root
\* that prependPath puts in front is the same for every id)
url == id

\* what the server answers: the resource named by the url of the request,
\* for a put with the properties that were sent
ResponseData(req) ==
    IF req.method = "get"
    THEN Obj(<<<<"id", Str(req.url)>>>>)
    ELSE Obj(<<<<"id", Str(req.url)>>>> \o req.body.p)

Remove(s, i) == SubSeq(s, 1, i - 1) \o SubSeq(s, i + 1, Len(s))

\* a handler of a provider: the form is not involved
provider(name) ==
    /\ handler' = name
    /\ invoked' = <<>>
    /\ emitted' = <<>>
    /\ response' = NoResponse
    /\ UNCHANGED formData

\* SimpleProviderMixin.load() up to its await; the watcher runs it once
\* the prop has its new value, so this.url is the url of the new id
load ==
    /\ loading' = TRUE
    /\ requests' = Append(requests, Request("get", url', Undefined))
    /\ UNCHANGED <<item, anyRejected>>

\* the parent changes the id prop: the watcher calls load()
WatchId(newVal) ==
    /\ Len(requests) < MaxRequests
    /\ newVal # id
    /\ id' = newVal
    /\ load
    /\ provider("watch.id")
    /\ UNCHANGED <<store, storeProvider, dispatched>>

\* SimpleProviderMixin.save(newProps) up to its await
save(newProps) ==
    /\ Len(requests) < MaxRequests
    /\ loading' = TRUE
    /\ requests' = Append(requests, Request("put", url, newProps))
    /\ provider("save")
    /\ UNCHANGED <<id, item, anyRejected, store, storeProvider, dispatched>>

\* the axios promise of requests[i] is fulfilled: load() / save() resume
\* after the await
HttpFulfilled(i) ==
    /\ i \in 1..Len(requests)
    /\ item' = ResponseData(requests[i])
    /\ loading' = FALSE
    /\ requests' = Remove(requests, i)
    /\ provider("fulfilled")
    /\ UNCHANGED <<id, anyRejected, store, storeProvider, dispatched>>

\* the axios promise of requests[i] is rejected: the await throws and the
\* rest of load() / save() does not run
HttpRejected(i) ==
    /\ i \in 1..Len(requests)
    /\ requests' = Remove(requests, i)
    /\ anyRejected' = TRUE
    /\ provider("rejected")
    /\ UNCHANGED <<id, loading, item, store, storeProvider, dispatched>>

Ids == {"a", "b"}
NewProps == {Obj(<<<<"name", Str("x")>>>>)}

NextProvider ==
    \/ \E newVal \in Ids : WatchId(newVal)
    \/ \E newProps \in NewProps : save(newProps)
    \/ \E i \in 1..MaxRequests : HttpFulfilled(i)
    \/ \E i \in 1..MaxRequests : HttpRejected(i)

SpecProvider == Init /\ [][NextProvider]_vars

\* the store action that load() of provider k dispatches
fetchAction(k) ==
    IF k = "GenomeProvider" THEN "fetchUploadGenomes" ELSE "fetchUploadDatatypes"

\* x.length == 0
LengthIsZero(x) ==
    CASE x.t = "array" -> Len(x.a) = 0
      [] x.t = "string" -> x.s = ""
      [] OTHER -> FALSE

\* faulty variant: an empty list counts as loaded
NothingCachedNullOnly(genomes) == genomes.t \in {"null", "undefined"}

\* genomes == null || genomes.length == 0
NothingCached(genomes) ==
    genomes.t \in {"null", "undefined"} \/ LengthIsZero(genomes)

\* GenomeProvider.load() / DatatypesProvider.load() up to the await, or to
\* the end when the getter has something
storeLoad(k) ==
    /\ NothingCached(store[k]) => storeProvider[k].awaiting < MaxRequests
    /\ IF NothingCached(store[k])
       THEN /\ dispatched' = <<fetchAction(k)>>
            /\ storeProvider' = [storeProvider EXCEPT ![k].loading = TRUE,
                                                      ![k].mounted = TRUE,
                                                      ![k].awaiting = @ + 1]
       ELSE /\ dispatched' = <<>>
            /\ storeProvider' = [storeProvider EXCEPT ![k].loading = FALSE,
                                                      ![k].mounted = TRUE,
                                                      ![k].item = store[k]]
    /\ UNCHANGED <<id, loading, item, requests, anyRejected, store>>

\* mounted() of provider k
Mounted(k) ==
    /\ ~storeProvider[k].mounted
    /\ storeLoad(k)
    /\ provider("mounted")

\* the id prop of provider k changes: the watcher of the mixin calls the
\* load() of the provider
StoreWatchId(k) ==
    /\ storeProvider[k].mounted
    /\ storeLoad(k)
    /\ provider("watch.id")

\* the store is changed, by the fetch action or by another component
StoreCommit(k, value) ==
    /\ value # store[k]
    /\ store' = [store EXCEPT ![k] = value]
    /\ dispatched' = <<>>
    /\ provider("commit")
    /\ UNCHANGED <<id, loading, item, requests, anyRejected, storeProvider>>

\* the promise of the fetch action is fulfilled: load() reads the getter
\* again and finishes
FetchFulfilled(k) ==
    /\ storeProvider[k].awaiting > 0
    /\ storeProvider' = [storeProvider EXCEPT ![k].loading = FALSE,
                                              ![k].item = store[k],
                                              ![k].awaiting = @ - 1]
    /\ dispatched' = <<>>
    /\ provider("fetched")
    /\ UNCHANGED <<id, loading, item, requests, anyRejected, store>>

\* the promise of the fetch action is rejected: the await throws
FetchRejected(k) ==
    /\ storeProvider[k].awaiting > 0
    /\ storeProvider' = [storeProvider EXCEPT ![k].awaiting = @ - 1]
    /\ dispatched' = <<>>
    /\ provider("fetchFailed")
    /\ UNCHANGED <<id, loading, item, requests, anyRejected, store>>

StoreValues == {Null, Arr(<<>>), Arr(<<Str("hg38")>>)}

NextStore ==
    \/ \E k \in StoreProviders : Mounted(k)
    \/ \E k \in StoreProviders : StoreWatchId(k)
    \/ \E k \in StoreProviders, value \in StoreValues : StoreCommit(k, value)
    \/ \E k \in StoreProviders : FetchFulfilled(k)
    \/ \E k \in StoreProviders : FetchRejected(k)

SpecStore == Init /\ [][NextStore]_vars

(***************************************************************************)
(* The claims.  A state in which handler = "onExecute" is the state right  *)
(* after onExecute ran; onExecute changes none of the form's data, so the  *)
(* data read there is the data onExecute ran on.                           *)
(***************************************************************************)
\* a validation entry that reports a failure: a list with an element
NonEmptyEntry(v) == v.t = "array" /\ Len(v.a) > 0

\* the step indices that hold a non-empty validation entry
FailedSteps ==
    {ToNumber(stepValidations[i][1]) : i \in
        {j \in 1..Len(stepValidations) : NonEmptyEntry(stepValidations[j][2])}}

Lowest(S) == CHOOSE n \in S : \A m \in S : n <= m

\* every validation entry is absent or null
NoValidationRecorded ==
    \A i \in 1..Len(stepValidations) : stepValidations[i][2] = Null

\* the scroll target points at step n
ScrollsTo(n) ==
    /\ stepScrollTo.stepId.t = "string"
    /\ IsIndexKey(stepScrollTo.stepId.s)
    /\ ToNumber(stepScrollTo.stepId.s) = n

\* C1 (as claimed): when some step holds a non-empty validation entry,
\* onExecute calls invokeWorkflow not at all and leaves the scroll target at
\* the lowest step index that holds a non-empty entry, with a copy of that
\* entry as stepError, whatever the order the entries were recorded in.
C1_LowestNonEmptyEntryIsTarget ==
    (handler = "onExecute" /\ FailedSteps # {}) =>
        /\ invoked = <<>>
        /\ ScrollsTo(Lowest(FailedSteps))
        /\ stepScrollTo.stepError = GetProp(stepValidations, ToString(Lowest(FailedSteps)))

\* C2: a step of the form calls invokeWorkflow once if it is an onExecute
\* trigger arriving while every validation entry is absent or null, and not
\* at all otherwise; the callbacks of the promise settle one call and issue
\* none.
C2_OneCallPerCleanExecute ==
    [][/\ Len(invoked') = IF handler' = "onExecute" /\ NoValidationRecorded
                          THEN 1 ELSE 0
       /\ inflight' = inflight + Len(invoked')
                        - (IF handler' \in {"then", "catch"} THEN 1 ELSE 0)]_vars

C2_Witness ==
    /\ handler = "onExecute"
    /\ Len(invoked) = 1
    /\ inflight = 2
    /\ Len(stepValidations) = NumSteps

\* own properties of an object as a set of <<name, value>>
Pairs(p) == {<<p[i][1], p[i][2]>> : i \in 1..Len(p)}
Keys(p) == {p[i][1] : i \in 1..Len(p)}

\* C3: in every request onExecute builds, parameters has an entry for
\* exactly the steps that recorded inputs, and the entry of a step holds
\* exactly the recorded <<name, value>> pairs whose name is not connected at
\* that step.
C3_ParametersAreUnconnectedInputs ==
    (handler = "onExecute" /\ invoked # <<>>) =>
        LET parameters == invoked[1].jobDef.parameters
        IN  /\ parameters.t = "object"
            /\ Keys(parameters.p) = Keys(stepData)
            /\ Len(parameters.p) = Len(stepData)
            /\ \A k \in Keys(stepData) :
                  /\ GetProp(parameters.p, k).t = "object"
                  /\ Pairs(GetProp(parameters.p, k).p) =
                        {pr \in Pairs(GetProp(stepData, k).p) :
                            <<k, pr[1]>> \notin model.connected}
                  /\ Len(GetProp(parameters.p, k).p) =
                        Cardinality(Pairs(GetProp(parameters.p, k).p))

C3_Witness ==
    /\ handler = "onExecute"
    /\ invoked # <<>>
    /\ Pairs(stepData) =
          {<<"0", Obj(<<<<"a", Num(1)>>, <<"b", Num(2)>>>>)>>,
           <<"1", Obj(<<<<"c", Num(3)>>>>)>>}
    /\ Pairs(invoked[1].jobDef.parameters.p) =
          {<<"0", Obj(<<<<"b", Num(2)>>>>)>>, <<"1", Obj(<<<<"c", Num(3)>>>>)>>}

NonNull(v) == v.t \notin {"null", "undefined"}

\* the new history name the latest history options carry, if they carry a
\* non-empty one
HasNewHistoryName ==
    /\ HasKey(historyData.p, "new_history|name")
    /\ GetProp(historyData.p, "new_history|name").t = "string"
    /\ GetProp(historyData.p, "new_history|name").s # ""

\* C4: in every request exactly one of history_id and new_history_name is
\* non-null: the new history name if the latest history options carry a
\* non-empty one, the model's history id otherwise.
C4_ExactlyOneHistoryTarget ==
    (handler = "onExecute" /\ invoked # <<>>) =>
        LET jobDef == invoked[1].jobDef
        IN  /\ NonNull(jobDef.history_id) # NonNull(jobDef.new_history_name)
            /\ HasNewHistoryName =>
                  /\ jobDef.new_history_name = GetProp(historyData.p, "new_history|name")
                  /\ jobDef.history_id = Null
            /\ ~HasNewHistoryName =>
                  /\ jobDef.history_id = model.historyId
                  /\ jobDef.new_history_name = Null

C4_Witness ==
    /\ handler = "onExecute"
    /\ invoked # <<>>
    /\ invoked[1].jobDef.new_history_name = Str("run 1")
    /\ invoked[1].jobDef.history_id = Null

\* C5 (as claimed): a step whose latest validation report is empty (an
\* empty list, null or none) is treated as valid: onExecute submits when
\* every report is empty, and the step onExecute scrolls to holds a
\* non-empty report.
C5_EmptyReportIsValid ==
    handler = "onExecute" =>
        /\ FailedSteps = {} => invoked # <<>>
        /\ invoked = <<>> => \E n \in FailedSteps : ScrollsTo(n)

\* e.response.data.err_data, undefined where a link of the path is missing
ErrDataOf(e) == Get(Get(Get(e, "response"), "data"), "err_data")

\* a per-step error map: a non-empty map from step ids to non-empty maps of
\* field errors
StepErrorMap(d) ==
    /\ d.t = "object"
    /\ Len(d.p) > 0
    /\ \A i \in 1..Len(d.p) : d.p[i][2].t = "object" /\ Len(d.p[i][2].p) > 0

\* the property JavaScript enumerates first: the integer-like key of lowest
\* value if there is one, the property created first otherwise
FirstProperty(p) ==
    IF \E i \in 1..Len(p) : IsIndexKey(p[i][1])
    THEN p[CHOOSE i \in 1..Len(p) :
              /\ IsIndexKey(p[i][1])
              /\ \A j \in 1..Len(p) :
                    IsIndexKey(p[j][1]) => ToNumber(p[i][1]) <= ToNumber(p[j][1])]
    ELSE p[1]

\* C6 (as claimed): a rejection that carries a per-step error map sets the
\* scroll target to the map's first entry in the order the server wrote it,
\* with the first field error of that entry, and emits nothing.
C6_FirstEntryInServerOrder ==
    (handler = "catch" /\ StepErrorMap(ErrDataOf(response.value))) =>
        LET d == ErrDataOf(response.value)
        IN  /\ emitted = <<>>
            /\ stepScrollTo.stepId = Str(d.p[1][1])
            /\ stepScrollTo.stepError = Arr(<<Str(d.p[1][2].p[1][1]), d.p[1][2].p[1][2]>>)

\* C6 (amended): a rejection that carries a per-step error map sets the
\* scroll target to the entry JavaScript enumerates first (the lowest
\* integer-like step id, whatever the order the server wrote the map in),
\* with the field error of that entry enumerated first, and emits nothing.
C6_FirstEntryInPropertyOrder ==
    (handler = "catch" /\ StepErrorMap(ErrDataOf(response.value))) =>
        LET d == ErrDataOf(response.value)
            step == FirstProperty(d.p)
            field == FirstProperty(step[2].p)
        IN  /\ emitted = <<>>
            /\ stepScrollTo.stepId = Str(step[1])
            /\ stepScrollTo.stepError = Arr(<<Str(field[1]), field[2]>>)

C6_Witness ==
    /\ handler = "catch"
    /\ StepErrorMap(ErrDataOf(response.value))
    /\ Len(ErrDataOf(response.value).p) = 2
    /\ ErrDataOf(response.value).p[1][1] = "1"
    /\ stepScrollTo = [stepId |-> Str("0"),
                       stepError |-> Arr(<<Str("field_x"), Str("bad value")>>)]

\* C7: the failure handler, called with an error that has no err_data (no
\* error object, no response, no data or no err_data), emits submissionError
\* once, with that error, and leaves the scroll target as it found it.
C7_OpaqueErrorIsForwarded ==
    [][(handler' = "catch" /\ ErrDataOf(response'.value) = Undefined) =>
          /\ emitted' = <<[name |-> "submissionError", arg |-> response'.value]>>
          /\ stepScrollTo' = stepScrollTo]_vars

C7_Witness ==
    /\ handler = "catch"
    /\ response.value = Obj(<<<<"response", Obj(<<<<"status", Num(500)>>>>)>>>>)
    /\ emitted = <<[name |-> "submissionError", arg |-> response.value]>>
    /\ stepScrollTo.stepId = Str("0")

\* err_data is there but is no per-step error map
Malformed(e) ==
    /\ Get(Get(e, "response"), "data").t = "object"
    /\ HasKey(Get(Get(e, "response"), "data").p, "err_data")
    /\ ~StepErrorMap(ErrDataOf(e))

\* C8 (as claimed): a rejection whose err_data is malformed is forwarded as
\* submissionError; hence after a failed submission either submissionError
\* was emitted or the scroll target holds a step id and a field-error pair.
C8_MalformedErrorIsForwarded ==
    handler = "catch" =>
        /\ Malformed(response.value) =>
              emitted = <<[name |-> "submissionError", arg |-> response.value]>>
        /\ \/ emitted = <<[name |-> "submissionError", arg |-> response.value]>>
           \/ /\ stepScrollTo.stepId.t = "string"
              /\ stepScrollTo.stepError.t = "array"
              /\ Len(stepScrollTo.stepError.a) = 2

\* C9 (as claimed): while a call of invokeWorkflow is in flight the busy
\* flag is true.
C9_BusyWhileInFlight == inflight > 0 => showExecuting

\* C10: the success handler emits submissionSuccess once, with the
\* invocation list its promise resolved with, emits nothing else and leaves
\* the scroll target as it found it, also while another call is in flight.
C10_SuccessIsForwarded ==
    [][handler' = "then" =>
          /\ emitted' = <<[name |-> "submissionSuccess", arg |-> response'.value]>>
          /\ stepScrollTo' = stepScrollTo]_vars

C10_Witness ==
    /\ handler = "then"
    /\ inflight = 1
    /\ response.value = Arr(<<Str("inv1"), Str("inv2")>>)
    /\ emitted = <<[name |-> "submissionSuccess", arg |-> response.value]>>
    /\ stepScrollTo.stepId = Str("1")

\* C11: when no call of invokeWorkflow is in flight the busy flag is down,
\* whatever the last call ended with (success, a per-step error map, a
\* malformed err_data, an error without err_data); and if every call gets a
\* response in the end, a raised busy flag comes down again.
C11_BusyClearedOnCompletion ==
    /\ [](inflight = 0 => ~showExecuting)
    /\ (showExecuting ~> ~showExecuting)

C11_Witness ==
    /\ handler = "catch"
    /\ response.value = ServerError(Obj(<<>>))
    /\ emitted # <<>>
    /\ inflight = 0
    /\ ~showExecuting

\* no validation entry stops the loop of onExecute
NothingBlocks == \A i \in 1..Len(stepValidations) : ~Truthy(stepValidations[i][2])

\* C12: an onExecute that arrives while the busy flag is raised and that no
\* validation entry blocks calls invokeWorkflow at once, like any other; a
\* state with two calls in flight is reachable (the witness).
C12_ExecuteWhileBusySubmits ==
    [][(handler' = "onExecute" /\ showExecuting /\ inflight > 0 /\ NothingBlocks) =>
          /\ Len(invoked') = 1
          /\ inflight' = inflight + 1
          /\ showExecuting']_vars

C12_Witness ==
    /\ handler = "onExecute"
    /\ Len(invoked) = 1
    /\ inflight = 2
    /\ showExecuting

\* C13 (as claimed): every request carries resource_params and
\* replacement_params that are objects, also when no resource or workflow
\* parameter event came before onExecute, and use_cached_job is the boolean
\* of the reuse flag.
C13_ParamsAreMappings ==
    (handler = "onExecute" /\ invoked # <<>>) =>
        /\ invoked[1].jobDef.resource_params.t = "object"
        /\ invoked[1].jobDef.replacement_params.t = "object"
        /\ invoked[1].jobDef.use_cached_job = Bool(useCachedJobs)

\* C14: every request has parameters_normalized = true, batch = true and
\* require_exact_tool_versions = false, whatever was recorded before it.
C14_FixedProtocolFlags ==
    (handler = "onExecute" /\ invoked # <<>>) =>
        /\ invoked[1].jobDef.parameters_normalized = Bool(TRUE)
        /\ invoked[1].jobDef.batch = Bool(TRUE)
        /\ invoked[1].jobDef.require_exact_tool_versions = Bool(FALSE)

C14_Witness ==
    /\ handler = "onExecute"
    /\ invoked # <<>>
    /\ stepData = <<>>
    /\ HasKey(stepValidations, "0")
    /\ invoked[1].jobDef.new_history_name = Str("run 1")
    /\ invoked[1].jobDef.use_cached_job = Bool(TRUE)
    /\ invoked[1].jobDef.batch = Bool(TRUE)

\* the step from the unprimed to the primed state records data as the input
\* map of step stepId and does nothing else
RecordsOnly(stepId, data) ==
    /\ GetProp(stepData', ToString(stepId)) = data
    /\ Keys(stepData') = Keys(stepData) \cup {ToString(stepId)}
    /\ Len(stepData') = Cardinality(Keys(stepData'))
    /\ \A k \in Keys(stepData) \ {ToString(stepId)} :
          GetProp(stepData', k) = GetProp(stepData, k)
    /\ stepValidations' = stepValidations
    /\ <<wpData, historyData, resourceData, useCachedJobs>>' =
          <<wpData, historyData, resourceData, useCachedJobs>>
    /\ stepScrollTo' = stepScrollTo
    /\ showExecuting' = showExecuting
    /\ inflight' = inflight
    /\ invoked' = <<>>
    /\ emitted' = <<>>

\* C15: onDefaultStepInputs and onToolStepInputs, called with (stepId,
\* data), both leave data as the input map of that step and change nothing
\* else: no other step's inputs, no validation entry, no option, not the
\* scroll target, not the busy flag; nothing is submitted or emitted.
C15_StepInputsOnlyRecorded ==
    [][\A stepId \in Steps, data \in InputMaps :
          (OnDefaultStepInputs(stepId, data) \/ OnToolStepInputs(stepId, data)) =>
              RecordsOnly(stepId, data)]_vars

C15_Witness ==
    /\ handler = "onChange"
    /\ showExecuting
    /\ HasKey(stepValidations, "0")
    /\ stepData = <<<<"1", Obj(<<<<"c", Num(3)>>>>)>>,
                    <<"0", Obj(<<<<"a", Num(2)>>>>)>>>>

\* C16: an onExecute that a validation entry aborts changes the scroll
\* target and nothing else: the busy flag, the step inputs, the validation
\* entries and the options stay, nothing is submitted and nothing emitted.
C16_AbortChangesOnlyScrollTarget ==
    [][(handler' = "onExecute" /\ ~NothingBlocks) =>
          /\ showExecuting' = showExecuting
          /\ stepData' = stepData
          /\ stepValidations' = stepValidations
          /\ <<wpData, historyData, resourceData, useCachedJobs>>' =
                <<wpData, historyData, resourceData, useCachedJobs>>
          /\ inflight' = inflight
          /\ invoked' = <<>>
          /\ emitted' = <<>>]_vars

C16_Witness ==
    /\ handler = "onExecute"
    /\ invoked = <<>>
    /\ ~showExecuting
    /\ inflight = 0
    /\ stepScrollTo = [stepId |-> Str("1"), stepError |-> Arr(<<Str("required")>>)]

\* C17 (as claimed): a load() or save() raises loading, and the settlement
\* of its HTTP request leaves loading = false, on success with item = the
\* response data, and on rejection too.
C17_SettledLeavesNotLoading ==
    [][/\ (handler' \in {"watch.id", "save"}) => loading'
       /\ \A i \in 1..Len(requests) :
             /\ HttpFulfilled(i) => (~loading' /\ item' = ResponseData(requests[i]))
             /\ HttpRejected(i) => ~loading']_vars

\* C18 (as claimed): with loads overlapping because the id changed, loading
\* is false only when no request is in flight, and once every request has
\* been answered item holds the data fetched for the current id, in whatever
\* order the answers arrived.
C18_LatestIdWins ==
    /\ ~loading => requests = <<>>
    /\ (requests = <<>> /\ ~anyRejected) => Get(item, "id") = Str(id)

\* C19: load() of GenomeProvider and of DatatypesProvider dispatches the
\* fetch action of its store exactly when the getter returns null or an
\* empty list as the load starts; with a populated store nothing is
\* dispatched; and when the load completes, item is what the getter returns
\* then and loading is false.
C19_FetchOnlyWhenStoreEmpty ==
    [][\A k \in StoreProviders :
          /\ (Mounted(k) \/ StoreWatchId(k)) =>
                /\ (dispatched' = <<fetchAction(k)>>) <=> (store[k] \in {Null, Arr(<<>>)})
                /\ (dispatched' = <<>>) <=> (store[k] \notin {Null, Arr(<<>>)})
                /\ (store[k] \notin {Null, Arr(<<>>)}) =>
                      /\ storeProvider'[k].item = store'[k]
                      /\ ~storeProvider'[k].loading
          /\ FetchFulfilled(k) =>
                /\ storeProvider'[k].item = store'[k]
                /\ ~storeProvider'[k].loading
                /\ dispatched' = <<>>]_vars

C19_Witness ==
    /\ handler = "fetched"
    /\ store["GenomeProvider"] = Arr(<<Str("hg38")>>)
    /\ storeProvider["GenomeProvider"] =
          [loading |-> FALSE, item |-> Arr(<<Str("hg38")>>), mounted |-> TRUE,
           awaiting |-> 0]
    /\ storeProvider["DatatypesProvider"].item = Arr(<<>>)
    /\ storeProvider["DatatypesProvider"].awaiting = 1

====
